---- MODULE Spec2Model ----
(***************************************************************************)
(* corehsm: a hierarchical state machine for non-interactive CLI programs. *)
(* The model follows the Go source: State nodes with parent links, the     *)
(* Registry (states by name, command bindings by state name and command    *)
(* name) and the Machine runtime (Execute, TransitionTo, snapshots).       *)
(***************************************************************************)
EXTENDS Integers, Sequences, FiniteSets, TLC

VARIABLES states, commandHandlers, m, last, walk

vars == <<states, commandHandlers, m, last, walk>>

-----------------------------------------------------------------------------
(* Bounds of the model.                                                    *)

\* The data payload is CounterData.Count; handlers stop incrementing here.
MaxData == 1

\* At most this many (state name, command name) bindings are registered.
MaxBindings == 2

\* The character example: levelup stops at this level, and damage of a
\* negative amount stops raising the hit points here.
MaxLevel == 3
MaxHitPoints == 24

\* Runs of commands have at most this many commands.
MaxRun == 2

\* A traversal visits at most this many states.
MaxSteps == 6

-----------------------------------------------------------------------------
(* State hierarchy: *State pointers made by NewState.                      *)

\* The nil *State.
NIL == "nil"

\* The State objects of the character example:
\*   pRoot = NewState("Root", nil)    pNoSheet = NewState("NoSheet", pRoot)
\*   pSheetExists = NewState("SheetExists", pRoot)
CharacterStates == {"pRoot", "pNoSheet", "pSheetExists"}

\* The State objects the program created with NewState:
\*   pR = NewState("R", nil)      pS  = NewState("S", pR)
\*   pT = NewState("T", pS)       pT2 = NewState("T", nil)
\* pT and pT2 are two objects with one name: NewState validates nothing.
NewState == {"pR", "pS", "pT", "pT2"}

StatePtrs == NewState \cup {NIL}

\* (s *State) Name(): the name field.
Name(s) ==
  CASE s = "pR" -> "R"
    [] s = "pS" -> "S"
    [] s = "pT" -> "T"
    [] s = "pT2" -> "T"
    [] s = "pRoot" -> "Root"
    [] s = "pNoSheet" -> "NoSheet"
    [] s = "pSheetExists" -> "SheetExists"

\* Parent links that close a cycle: the root R has the parent pT.
ParentWithCycle(s) ==
  CASE s = "pR" -> "pT"
    [] s = "pS" -> "pR"
    [] s = "pT" -> "pS"
    [] s = "pT2" -> NIL

\* (s *State) Parent(): the parent field.
Parent(s) ==
  CASE s = "pR" -> NIL
    [] s = "pS" -> "pR"
    [] s = "pT" -> "pS"
    [] s = "pT2" -> NIL
    [] s = "pRoot" -> NIL
    [] s = "pNoSheet" -> "pRoot"
    [] s = "pSheetExists" -> "pRoot"

StateNames == {Name(s) : s \in NewState}

-----------------------------------------------------------------------------
(* Strings that are compared with <: command names, as byte sequences.     *)

\* "a", "ab", "b"
CmdNames == {<<1>>, <<1, 2>>, <<2>>}

\* Go's string a < b: bytewise lexicographic, a proper prefix is smaller.
RECURSIVE StrLess(_, _)
StrLess(a, b) ==
  IF b = <<>> THEN FALSE
  ELSE IF a = <<>> THEN TRUE
  ELSE IF Head(a) < Head(b) THEN TRUE
  ELSE IF Head(a) > Head(b) THEN FALSE
  ELSE StrLess(Tail(a), Tail(b))

-----------------------------------------------------------------------------
(* Maps.                                                                   *)

EmptyMap == [k \in {} |-> NIL]

\* map[k] = v
Put(f, k, v) == [x \in (DOMAIN f) \cup {k} |-> IF x = k THEN v ELSE f[x]]

-----------------------------------------------------------------------------
(* Commands, definitions, handlers.                                        *)

\* NewCommand(name, args...): the model's handlers read no arguments.
NewCommand(name) == [name |-> name, args |-> <<>>]

Commands == {NewCommand(n) : n \in CmdNames}

\* The handler functions the integrator wrote.
Handlers == {"increment", "enter", "failing"}

NoHandler == "nil"

\* CommandDef{Name, Args, Description}
CommandDef(name, description) ==
  [Name |-> name, Args |-> "", Description |-> description]

\* The (def, handler) pairs the program passes to RegisterCommand: "a" is
\* served by two handlers, and increment is offered under two names.
Registrations ==
  {[def |-> CommandDef(<<1>>, "enter the T state"), handler |-> "enter"],
   [def |-> CommandDef(<<1>>, "fail half way"), handler |-> "failing"],
   [def |-> CommandDef(<<1, 2>>, "count up"), handler |-> "increment"],
   [def |-> CommandDef(<<2>>, "count up (alias)"), handler |-> "increment"]}

\* error values; NoError is Go's nil error.
NoError == [kind |-> "nil", cmd |-> <<>>, state |-> ""]
CommandNotAvailableError(cmd, state) ==
  [kind |-> "command not available", cmd |-> cmd, state |-> state]
StateNotFoundError(name) ==
  [kind |-> "state not found", cmd |-> <<>>, state |-> name]
HandlerError == [kind |-> "handler failed", cmd |-> <<>>, state |-> ""]
\* A nil pointer dereference: the runtime panics and the process ends.
Panic == [kind |-> "panic", cmd |-> <<>>, state |-> ""]

\* increment of the README: m.Data.Count++, no next state.
Increment(mach, cmd) ==
  [Data |-> mach.Data + 1,
   Output |-> <<"Count is now: ", ToString(mach.Data + 1)>>,
   NextState |-> NIL,
   err |-> NoError]

\* A handler that asks for a transition to pT and leaves the data alone; its
\* output names the state it ran in.
Enter(mach, cmd) ==
  [Data |-> mach.Data,
   Output |-> <<"entered T from ", Name(mach.CurrentState)>>,
   NextState |-> "pT",
   err |-> NoError]

\* A handler that changes the data, writes output, names a next state and
\* then fails.
Failing(mach, cmd) ==
  [Data |-> mach.Data + 1,
   Output |-> <<"partial">>,
   NextState |-> "pS",
   err |-> HandlerError]

\* fmt.Errorf(text)
Errorf(text) == [kind |-> text, cmd |-> <<>>, state |-> ""]

\* corehsm.Result{} returned with an error: the data is as it was.
NoResult(mach, err) ==
  [Data |-> mach.Data, Output |-> <<>>, NextState |-> NIL, err |-> err]

\* The zero value CharacterData{}; Inventory is a nil slice.
ZeroCharacterData ==
  [Name |-> <<>>, Race |-> <<>>, Class |-> <<>>, Level |-> 0, HP |-> 0,
   MaxHP |-> 0, BaseStats |-> [STR |-> 0, DEX |-> 0, CON |-> 0],
   Inventory |-> [isNil |-> TRUE, items |-> <<>>]]

\* strconv.Atoi on a string of bytes: an optional sign, then one or more
\* decimal digits; anything else is an error.
RECURSIVE DigitsValue(_, _)
DigitsValue(digits, acc) ==
  IF digits = <<>> THEN acc
  ELSE DigitsValue(Tail(digits), 10 * acc + (Head(digits) - 48))

Atoi(s) ==
  LET signed == s # <<>> /\ Head(s) \in {43, 45}
      digits == IF signed THEN Tail(s) ELSE s
  IN IF digits = <<>> \/ \E i \in 1..Len(digits) : digits[i] \notin 48..57
     THEN [n |-> 0, ok |-> FALSE]
     ELSE [n |-> IF signed /\ Head(s) = 45 THEN 0 - DigitsValue(digits, 0)
                 ELSE DigitsValue(digits, 0),
           ok |-> TRUE]

\* A create that resets the sheet when it refuses its arguments.
CreateClearingOnError(mach, cmd) ==
  IF Len(cmd.args) # 3
  THEN [Data |-> ZeroCharacterData, Output |-> <<>>, NextState |-> NIL,
        err |-> Errorf("usage: create [name] [race] [class]")]
  ELSE [Data |-> [Name |-> cmd.args[1], Race |-> cmd.args[2], Class |-> cmd.args[3],
                  Level |-> 1, HP |-> 10, MaxHP |-> 10,
                  BaseStats |-> [STR |-> 10, DEX |-> 10, CON |-> 10],
                  Inventory |-> [isNil |-> FALSE, items |-> <<>>]],
        Output |-> <<"'", cmd.args[1], "' the ", cmd.args[2], " ", cmd.args[3],
                     " has been created!">>,
        NextState |-> "pSheetExists",
        err |-> NoError]

\* create of the character example.
Create(mach, cmd) ==
  IF Len(cmd.args) # 3
  THEN NoResult(mach, Errorf("usage: create [name] [race] [class]"))
  ELSE [Data |-> [Name |-> cmd.args[1], Race |-> cmd.args[2], Class |-> cmd.args[3],
                  Level |-> 1, HP |-> 10, MaxHP |-> 10,
                  BaseStats |-> [STR |-> 10, DEX |-> 10, CON |-> 10],
                  Inventory |-> [isNil |-> FALSE, items |-> <<>>]],
        Output |-> <<"'", cmd.args[1], "' the ", cmd.args[2], " ", cmd.args[3],
                     " has been created!">>,
        NextState |-> "pSheetExists",
        err |-> NoError]

\* takeDamage of the character example.
TakeDamage(mach, cmd) ==
  IF Len(cmd.args) # 1
  THEN NoResult(mach, Errorf("usage: take-damage [amount]"))
  ELSE LET amount == Atoi(cmd.args[1])
           hp == mach.Data.HP - amount.n
       IN IF ~amount.ok
          THEN NoResult(mach, Errorf("invalid amount: must be a number"))
          ELSE [Data |-> [mach.Data EXCEPT !.HP = IF hp < 0 THEN 0 ELSE hp],
                Output |-> <<mach.Data.Name, " takes ", ToString(amount.n), " damage!">>,
                NextState |-> NIL,
                err |-> NoError]

\* levelup of the character example.
LevelUp(mach, cmd) ==
  LET conBonus == (mach.Data.BaseStats.CON - 10) \div 2
      hpIncrease == IF 5 + conBonus < 1 THEN 1 ELSE 5 + conBonus
      maxHP == mach.Data.MaxHP + hpIncrease
  IN [Data |-> [mach.Data EXCEPT !.Level = @ + 1, !.MaxHP = maxHP, !.HP = maxHP],
      Output |-> <<mach.Data.Name, " reached level ",
                   ToString(mach.Data.Level + 1), "!">>,
      NextState |-> NIL,
      err |-> NoError]

\* handler(ctx, m, cmd): the call of a CommandHandlerFunc.
Call(handler, mach, cmd) ==
  CASE handler = "increment" -> Increment(mach, cmd)
    [] handler = "enter" -> Enter(mach, cmd)
    [] handler = "failing" -> Failing(mach, cmd)
    [] handler = "create" -> Create(mach, cmd)
    [] handler = "takeDamage" -> TakeDamage(mach, cmd)
    [] handler = "levelup" -> LevelUp(mach, cmd)

-----------------------------------------------------------------------------
(* Registry.                                                               *)

\* NewRegistry: two empty maps.
NewRegistry == [states |-> EmptyMap, commandHandlers |-> EmptyMap]

\* A registration that replaces the entry of a name already present and goes
\* on to the parents.
RECURSIVE RegisterStateOverwrite(_, _)
RegisterStateOverwrite(sts, state) ==
  IF state = NIL THEN sts
  ELSE RegisterStateOverwrite(Put(sts, Name(state), state), Parent(state))

\* A registration that stores the state and forgets its parents.
RegisterStateOnly(sts, state) ==
  IF state = NIL THEN sts
  ELSE IF Name(state) \in DOMAIN sts THEN sts
  ELSE Put(sts, Name(state), state)

\* RegisterState: the states map after the call.
RECURSIVE RegisterStateMap(_, _)
RegisterStateMap(sts, state) ==
  IF state = NIL THEN sts
  ELSE IF Name(state) \in DOMAIN sts THEN sts
  ELSE RegisterStateMap(Put(sts, Name(state), state), Parent(state))

\* A registration that keeps the first binding of a pair.
RegisterCommandFirstWins(ch, state, def, handler) ==
  LET stateName == Name(state)
      inner == IF stateName \in DOMAIN ch THEN ch[stateName] ELSE EmptyMap
  IN IF def.Name \in DOMAIN inner THEN ch
     ELSE Put(ch, stateName, Put(inner, def.Name, [Def |-> def, Handler |-> handler]))

\* RegisterCommand: the commandHandlers map after the call (state not nil).
RegisterCommandMap(ch, state, def, handler) ==
  LET stateName == Name(state)
      inner == IF stateName \in DOMAIN ch THEN ch[stateName] ELSE EmptyMap
  IN Put(ch, stateName, Put(inner, def.Name, [Def |-> def, Handler |-> handler]))

\* A lookup that reports every name as found.
GetStateByNameAlways(name) ==
  IF name \in DOMAIN states
  THEN [s |-> states[name], ok |-> TRUE]
  ELSE [s |-> NIL, ok |-> TRUE]

\* GetStateByName
GetStateByName(name) ==
  IF name \in DOMAIN states
  THEN [s |-> states[name], ok |-> TRUE]
  ELSE [s |-> NIL, ok |-> FALSE]

\* A lookup that prefers the binding farthest from the state (root first).
RECURSIVE findFarthestHandler(_, _)
findFarthestHandler(state, cmdName) ==
  IF state = NIL THEN [handler |-> NoHandler, found |-> FALSE]
  ELSE LET up == findFarthestHandler(Parent(state), cmdName)
       IN IF up.found THEN up
          ELSE IF Name(state) \in DOMAIN commandHandlers
                  /\ cmdName \in DOMAIN commandHandlers[Name(state)]
               THEN [handler |-> commandHandlers[Name(state)][cmdName].Handler,
                     found |-> TRUE]
               ELSE [handler |-> NoHandler, found |-> FALSE]

\* findCommandHandler: the loop from state upward.
RECURSIVE findCommandHandler(_, _)
findCommandHandler(state, cmdName) ==
  IF state = NIL THEN [handler |-> NoHandler, found |-> FALSE]
  ELSE IF Name(state) \in DOMAIN commandHandlers
          /\ cmdName \in DOMAIN commandHandlers[Name(state)]
       THEN [handler |-> commandHandlers[Name(state)][cmdName].Handler,
             found |-> TRUE]
       ELSE findCommandHandler(Parent(state), cmdName)

\* The orders in which one call may range over the inner maps: Go leaves the
\* iteration order of a map unspecified, so every order of every map's keys.
Perms(K) ==
  {p \in [1..Cardinality(K) -> K] : \A i, j \in DOMAIN p : i # j => p[i] # p[j]}

RangeOrders ==
  LET orders == [sn \in DOMAIN commandHandlers |->
                   Perms(DOMAIN commandHandlers[sn])]
  IN {o \in [DOMAIN commandHandlers ->
               UNION {orders[sn] : sn \in DOMAIN commandHandlers}] :
        \A sn \in DOMAIN commandHandlers : o[sn] \in orders[sn]}

\* The inner loop of FindAvailableCommands over one state's bindings, the keys
\* visited in the order keys: acc is [seen, commands].
RECURSIVE RangeHandlers(_, _, _)
RangeHandlers(stateHandlers, keys, acc) ==
  IF keys = <<>> THEN acc
  ELSE LET cmdName == Head(keys)
           regCmd == stateHandlers[cmdName]
       IN RangeHandlers(stateHandlers, Tail(keys),
            IF cmdName \in acc.seen THEN acc
            ELSE [seen |-> acc.seen \cup {cmdName},
                  commands |-> Append(acc.commands, regCmd.Def)])

\* The outer loop of FindAvailableCommands: from state upward.
RECURSIVE CollectCommands(_, _, _)
CollectCommands(s, order, acc) ==
  IF s = NIL THEN acc
  ELSE CollectCommands(Parent(s), order,
         IF Name(s) \in DOMAIN commandHandlers
         THEN RangeHandlers(commandHandlers[Name(s)], order[Name(s)], acc)
         ELSE acc)

\* A collection that starts at the root, so the farthest definition of a name
\* is the one kept.
RECURSIVE CollectFromRoot(_, _, _)
CollectFromRoot(s, order, acc) ==
  IF s = NIL THEN acc
  ELSE LET up == CollectFromRoot(Parent(s), order, acc)
       IN IF Name(s) \in DOMAIN commandHandlers
          THEN RangeHandlers(commandHandlers[Name(s)], order[Name(s)], up)
          ELSE up

\* Insert def into a sequence sorted by Name.
RECURSIVE InsertByName(_, _)
InsertByName(def, sorted) ==
  IF sorted = <<>> THEN <<def>>
  ELSE IF StrLess(def.Name, Head(sorted).Name) THEN <<def>> \o sorted
  ELSE <<Head(sorted)>> \o InsertByName(def, Tail(sorted))

\* A sort that leaves the slice as it was collected.
LeaveUnsorted(commands) == commands

\* sort.Slice(commands, Name <)
RECURSIVE SortByName(_)
SortByName(commands) ==
  IF commands = <<>> THEN <<>>
  ELSE InsertByName(Head(commands), SortByName(Tail(commands)))

FindFarthestCommands(state, order) ==
  SortByName(CollectFromRoot(state, order, [seen |-> {}, commands |-> <<>>]).commands)

\* FindAvailableCommands(state), the maps ranged over in the given order.
FindAvailableCommands(state, order) ==
  SortByName(CollectCommands(state, order, [seen |-> {}, commands |-> <<>>]).commands)

\* The number of bindings the registry holds.
NumBindings ==
  LET pairs == {p \in StateNames \X CmdNames :
                  p[1] \in DOMAIN commandHandlers
                  /\ p[2] \in DOMAIN commandHandlers[p[1]]}
  IN Cardinality(pairs)

-----------------------------------------------------------------------------
(* Machine runtime.                                                        *)

Reverse(seq) == [i \in 1..Len(seq) |-> seq[Len(seq) + 1 - i]]

\* The first loop of buildStatePath: the states from s up to its root.
RECURSIVE PathUp(_)
PathUp(s) == IF s = NIL THEN <<>> ELSE <<s>> \o PathUp(Parent(s))

\* A path that is never reversed: it runs from the target to the root.
buildStatePathUnreversed(targetState) == PathUp(targetState)

\* buildStatePath: the path from the root to targetState.
buildStatePath(targetState) == Reverse(PathUp(targetState))

\* A transition that lands on the root of the new state's path.
MachineTransitionToRoot(mach, newState) ==
  [mach EXCEPT !.StateStack = buildStatePath(newState),
               !.CurrentState = IF newState = NIL THEN NIL
                                ELSE buildStatePath(newState)[1]]

\* (m *Machine) TransitionTo(newState), on the machine record.
MachineTransitionTo(mach, newState) ==
  [mach EXCEPT !.StateStack = buildStatePath(newState),
               !.CurrentState = newState]

\* A construction that caches no path.
MachineNewNoPath(initialState, initialData) ==
  [CurrentState |-> initialState, StateStack |-> <<>>, Data |-> initialData]

\* NewMachine(registry, initialState, initialData)
MachineNew(initialState, initialData) ==
  MachineTransitionTo(
    [CurrentState |-> NIL, StateStack |-> <<>>, Data |-> initialData],
    initialState)

\* Snapshot{CurrentStateName, Data}
Snapshot(name, data) == [CurrentStateName |-> name, Data |-> data]

NoSnapshot == Snapshot("", -1)

\* A restore that forgets the payload.
MachineFromSnapshotZeroData(snapshot) ==
  LET got == GetStateByName(snapshot.CurrentStateName)
  IN IF ~got.ok
     THEN [m |-> <<>>, err |-> StateNotFoundError(snapshot.CurrentStateName)]
     ELSE [m |-> <<[CurrentState |-> got.s,
                    StateStack |-> buildStatePath(got.s),
                    Data |-> 0]>>,
           err |-> NoError]

\* NewMachineFromSnapshot(registry, snapshot): the machine (none on failure)
\* and the error.
MachineFromSnapshot(snapshot) ==
  LET got == GetStateByName(snapshot.CurrentStateName)
  IN IF ~got.ok
     THEN [m |-> <<>>, err |-> StateNotFoundError(snapshot.CurrentStateName)]
     ELSE [m |-> <<[CurrentState |-> got.s,
                    StateStack |-> buildStatePath(got.s),
                    Data |-> snapshot.Data]>>,
           err |-> NoError]

\* A snapshot that names the root of the machine's path.
MachineGetSnapshotOfRoot(mach) ==
  IF mach.CurrentState = NIL
  THEN [snap |-> NoSnapshot, err |-> Panic]
  ELSE [snap |-> Snapshot(Name(mach.StateStack[1]), mach.Data), err |-> NoError]

\* (m *Machine) GetSnapshot(): m.CurrentState.Name() dereferences the current
\* state, which panics when it is nil.
MachineGetSnapshot(mach) ==
  IF mach.CurrentState = NIL
  THEN [snap |-> NoSnapshot, err |-> Panic]
  ELSE [snap |-> Snapshot(Name(mach.CurrentState), mach.Data), err |-> NoError]

\* Execute, no handler found: the error names the command and the current
\* state, whose Name() panics when the current state is nil.
ExecuteNotFound(mach, cmd) ==
  IF mach.CurrentState = NIL
  THEN [m |-> mach, out |-> <<>>, err |-> Panic, handler |-> NoHandler]
  ELSE [m |-> mach, out |-> <<>>,
        err |-> CommandNotAvailableError(cmd.name, Name(mach.CurrentState)),
        handler |-> NoHandler]

\* An error path that still applies the transition the result names.
ExecuteFailedTransitions(ran, result, handler) ==
  [m |-> IF result.NextState # NIL
         THEN MachineTransitionTo(ran, result.NextState) ELSE ran,
   out |-> result.Output, err |-> result.err, handler |-> handler]

\* Execute, the handler returned an error: ran is the machine as the handler
\* left it.
ExecuteFailed(ran, result, handler) ==
  [m |-> ran, out |-> result.Output, err |-> result.err, handler |-> handler]

\* A test that compares the State pointers instead of the names.
ShouldTransitionByPointer(mach, nextState) ==
  nextState # NIL /\ nextState # mach.CurrentState

\* Execute's test for a transition.
ShouldTransition(mach, nextState) ==
  nextState # NIL /\ Name(nextState) # Name(mach.CurrentState)

\* Execute, the handler succeeded.
ExecuteSucceeded(ran, result, handler) ==
  [m |-> IF ShouldTransition(ran, result.NextState)
         THEN MachineTransitionTo(ran, result.NextState) ELSE ran,
   out |-> result.Output, err |-> NoError, handler |-> handler]

\* (m *Machine) Execute(ctx, cmd): the machine after the call, the output,
\* the error and the handler that ran. The handler changes m.Data in place.
MachineExecute(mach, cmd) ==
  LET look == findCommandHandler(mach.CurrentState, cmd.name)
  IN IF ~look.found
     THEN ExecuteNotFound(mach, cmd)
     ELSE LET result == Call(look.handler, mach, cmd)
              ran == [mach EXCEPT !.Data = result.Data]
          IN IF result.err # NoError
             THEN ExecuteFailed(ran, result, look.handler)
             ELSE ExecuteSucceeded(ran, result, look.handler)

-----------------------------------------------------------------------------
(* Runs of several commands.                                               *)

\* Commands executed one after the other on one machine in memory: what each
\* Execute returned, and the machine at the end.
RECURSIVE RunInMemory(_, _)
RunInMemory(mach, cmds) ==
  IF cmds = <<>> THEN [results |-> <<>>, m |-> <<mach>>]
  ELSE LET r == MachineExecute(mach, Head(cmds))
           rest == RunInMemory(r.m, Tail(cmds))
       IN [results |-> <<[out |-> r.out, err |-> r.err]>> \o rest.results,
           m |-> rest.m]

\* The same commands, one per process: after each command the machine is
\* saved with GetSnapshot and the next process restores it with
\* NewMachineFromSnapshot. A restore that fails ends the run with its error.
RECURSIVE RunPersisted(_, _)
RunPersisted(mach, cmds) ==
  IF cmds = <<>> THEN [results |-> <<>>, m |-> <<mach>>]
  ELSE LET r == MachineExecute(mach, Head(cmds))
       IN IF Tail(cmds) = <<>>
          THEN [results |-> <<[out |-> r.out, err |-> r.err]>>, m |-> <<r.m>>]
          ELSE LET saved == MachineGetSnapshot(r.m)
                   loaded == MachineFromSnapshot(saved.snap)
               IN IF loaded.err # NoError
                  THEN [results |-> <<[out |-> r.out, err |-> r.err],
                                      [out |-> <<>>, err |-> loaded.err]>>,
                        m |-> <<>>]
                  ELSE LET rest == RunPersisted(loaded.m[1], Tail(cmds))
                       IN [results |-> <<[out |-> r.out, err |-> r.err]>>
                                         \o rest.results,
                           m |-> rest.m]

-----------------------------------------------------------------------------
(* The result of the last call.                                            *)

Ret(op) ==
  [op |-> op, out |-> <<>>, err |-> NoError, handler |-> NoHandler,
   snap |-> NoSnapshot, cmds |-> <<>>]

Panicked == last.err = Panic

\* No traversal of the hierarchy is in progress.
Idle == [pc |-> "idle"]

-----------------------------------------------------------------------------
(* Actions.                                                                *)

Init ==
  /\ states = NewRegistry.states
  /\ commandHandlers = NewRegistry.commandHandlers
  /\ m = <<>>
  /\ last = Ret("NewRegistry")
  /\ walk = Idle

RegisterState(state) ==
  /\ ~Panicked
  /\ states' = RegisterStateMap(states, state)
  /\ last' = Ret("RegisterState")
  /\ UNCHANGED <<commandHandlers, m, walk>>

RegisterCommand(state, def, handler) ==
  /\ ~Panicked
  /\ IF state = NIL
     THEN /\ last' = [Ret("RegisterCommand") EXCEPT !.err = Panic]
          /\ UNCHANGED commandHandlers
     ELSE /\ \/ NumBindings < MaxBindings
             \/ /\ Name(state) \in DOMAIN commandHandlers
                /\ def.Name \in DOMAIN commandHandlers[Name(state)]
          /\ commandHandlers' = RegisterCommandMap(commandHandlers, state, def, handler)
          /\ last' = Ret("RegisterCommand")
  /\ UNCHANGED <<states, m, walk>>

\* A construction that also registers the initial state.
NewMachineRegistering(initialState, initialData) ==
  /\ ~Panicked
  /\ m' = <<MachineNew(initialState, initialData)>>
  /\ last' = Ret("NewMachine")
  /\ states' = RegisterStateMap(states, initialState)
  /\ UNCHANGED <<commandHandlers, walk>>

NewMachine(initialState, initialData) ==
  /\ ~Panicked
  /\ m' = <<MachineNew(initialState, initialData)>>
  /\ last' = Ret("NewMachine")
  /\ UNCHANGED <<states, commandHandlers, walk>>

NewMachineFromSnapshot(snapshot) ==
  /\ ~Panicked
  /\ LET r == MachineFromSnapshot(snapshot)
     IN /\ m' = r.m
        /\ last' = [Ret("NewMachineFromSnapshot") EXCEPT !.err = r.err]
  /\ UNCHANGED <<states, commandHandlers, walk>>

TransitionTo(newState) ==
  /\ ~Panicked
  /\ m # <<>>
  /\ m' = <<MachineTransitionTo(m[1], newState)>>
  /\ last' = Ret("TransitionTo")
  /\ UNCHANGED <<states, commandHandlers, walk>>

Execute(cmd) ==
  /\ ~Panicked
  /\ m # <<>>
  /\ LET r == MachineExecute(m[1], cmd)
     IN /\ r.m.Data <= MaxData
        /\ m' = <<r.m>>
        /\ last' = [Ret("Execute") EXCEPT !.out = r.out, !.err = r.err,
                                          !.handler = r.handler]
  /\ UNCHANGED <<states, commandHandlers, walk>>

GetSnapshot ==
  /\ ~Panicked
  /\ m # <<>>
  /\ LET g == MachineGetSnapshot(m[1])
     IN last' = [Ret("GetSnapshot") EXCEPT !.snap = g.snap, !.err = g.err]
  /\ UNCHANGED <<states, commandHandlers, m, walk>>

\* NewMachineFromSnapshot(registry, m.GetSnapshot()): the machine is replaced
\* by the one restored from its own snapshot.
SnapshotRoundTrip ==
  /\ ~Panicked
  /\ m # <<>>
  /\ LET g == MachineGetSnapshot(m[1])
     IN IF g.err # NoError
        THEN /\ last' = [Ret("SnapshotRoundTrip") EXCEPT !.err = g.err]
             /\ UNCHANGED m
        ELSE LET r == MachineFromSnapshot(g.snap)
             IN /\ m' = r.m
                /\ last' = [Ret("SnapshotRoundTrip") EXCEPT !.snap = g.snap,
                                                           !.err = r.err]
  /\ UNCHANGED <<states, commandHandlers, walk>>

\* m.Registry().FindAvailableCommands(m.CurrentState), as the character
\* example lists the commands of the current state.
ListCommands ==
  /\ ~Panicked
  /\ m # <<>>
  /\ \E order \in RangeOrders :
       last' = [Ret("FindAvailableCommands") EXCEPT
                  !.cmds = FindAvailableCommands(m[1].CurrentState, order)]
  /\ UNCHANGED <<states, commandHandlers, m, walk>>

\* The snapshots a caller can hand to NewMachineFromSnapshot: any name, a
\* registered one or not, with any payload.
Snapshots == {Snapshot(n, d) : n \in StateNames \cup {"Ghost"}, d \in 0..MaxData}

Next ==
  \/ \E s \in StatePtrs : RegisterState(s)
  \/ \E s \in StatePtrs, r \in Registrations :
       RegisterCommand(s, r.def, r.handler)
  \/ \E s \in StatePtrs, d \in 0..MaxData : NewMachine(s, d)
  \/ \E snapshot \in Snapshots : NewMachineFromSnapshot(snapshot)
  \/ \E s \in StatePtrs : TransitionTo(s)
  \/ \E cmd \in Commands : Execute(cmd)
  \/ GetSnapshot
  \/ SnapshotRoundTrip
  \/ ListCommands

Spec == Init /\ [][Next]_vars

-----------------------------------------------------------------------------
(* Vocabulary of the properties.                                           *)

\* The k-th parent of s (s itself for k = 0), nil past the root.
RECURSIVE Up(_, _)
Up(s, k) == IF s = NIL \/ k = 0 THEN s ELSE Up(Parent(s), k - 1)

Depths == 0..Cardinality(NewState)

\* The states of s's parent chain, s included.
Chain(s) == {Up(s, k) : k \in Depths} \ {NIL}

\* State s has a binding for command name c (bindings are kept by state name).
Binds(s, c) ==
  /\ s # NIL
  /\ Name(s) \in DOMAIN commandHandlers
  /\ c \in DOMAIN commandHandlers[Name(s)]

\* The distances from s to the states of its chain that bind c.
Binders(s, c) == {k \in Depths : Binds(Up(s, k), c)}

\* The binding of c closest to s, when Binders(s, c) is not empty.
ClosestBinding(s, c) ==
  LET k == CHOOSE i \in Depths :
             /\ Binds(Up(s, i), c)
             /\ \A j \in 0..(i - 1) : ~Binds(Up(s, j), c)
  IN commandHandlers[Name(Up(s, k))][c]

\* a comes before b in lexicographic order.
LexBefore(a, b) ==
  \E k \in 0..Len(a) :
    /\ k <= Len(b)
    /\ \A i \in 1..k : a[i] = b[i]
    /\ \/ k = Len(a) /\ k < Len(b)
       \/ k < Len(a) /\ k < Len(b) /\ a[k + 1] < b[k + 1]

\* path is the root-to-s path of s's parent links.
IsRootPath(path, s) ==
  /\ Len(path) >= 1
  /\ path[Len(path)] = s
  /\ Parent(path[1]) = NIL
  /\ \A i \in 2..Len(path) : Parent(path[i]) = path[i - 1]

\* The handler Execute resolves for cmd on the machine, and what it returns.
Resolved(cmd) == findCommandHandler(m[1].CurrentState, cmd.name)
Returned(cmd) == Call(Resolved(cmd).handler, m[1], cmd)

-----------------------------------------------------------------------------
(* The traversals of the hierarchy, one loop iteration per step. walk is   *)
(* the position of the running traversal: pc names the loop, cur is the    *)
(* loop variable, steps counts the states the loops have visited.          *)

\* The calls that walk a parent chain.
WalkOps ==
  {"RegisterState", "findCommandHandler", "FindAvailableCommands",
   "buildStatePath", "Execute"}

\* The call op(s) starts; Execute starts with its findCommandHandler.
BeginWalk(op, s, c) ==
  /\ walk = Idle
  /\ op = "Execute" => s # NIL
  /\ walk' = [pc |-> IF op = "Execute" THEN "findCommandHandler" ELSE op,
              op |-> op, start |-> s, cur |-> s, cmd |-> c, steps |-> 0,
              target |-> NIL, path |-> <<>>, i |-> 0, j |-> 0,
              acc |-> [seen |-> {}, commands |-> <<>>]]
  /\ UNCHANGED <<states, commandHandlers, m, last>>

\* RegisterState: return on nil or on a name already present, else store the
\* state and go on with its parent.
StepRegisterState ==
  /\ walk.pc = "RegisterState"
  /\ IF walk.cur = NIL
     THEN walk' = [walk EXCEPT !.pc = "done"] /\ UNCHANGED states
     ELSE IF Name(walk.cur) \in DOMAIN states
     THEN walk' = [walk EXCEPT !.pc = "done"] /\ UNCHANGED states
     ELSE /\ walk.steps < MaxSteps
          /\ states' = Put(states, Name(walk.cur), walk.cur)
          /\ walk' = [walk EXCEPT !.cur = Parent(walk.cur), !.steps = @ + 1]
  /\ UNCHANGED <<commandHandlers, m, last>>

\* findCommandHandler: one iteration of "for state != nil". Execute goes on
\* to call the handler it found and returns when none is found.
StepFindCommandHandler ==
  /\ walk.pc = "findCommandHandler"
  /\ IF walk.cur = NIL
     THEN walk' = [walk EXCEPT !.pc = "done"]
     ELSE /\ walk.steps < MaxSteps
          /\ IF Binds(walk.cur, walk.cmd)
             THEN walk' = [walk EXCEPT
                             !.pc = IF walk.op = "Execute" THEN "handler" ELSE "done",
                             !.steps = @ + 1]
             ELSE walk' = [walk EXCEPT !.cur = Parent(walk.cur), !.steps = @ + 1]
  /\ UNCHANGED <<states, commandHandlers, m, last>>

\* Execute: the handler returns; a transition goes on to buildStatePath.
StepHandler ==
  /\ walk.pc = "handler"
  /\ LET mach == MachineNew(walk.start, 0)
         result == Call(commandHandlers[Name(walk.cur)][walk.cmd].Handler, mach,
                        NewCommand(walk.cmd))
     IN IF result.err = NoError /\ ShouldTransition(mach, result.NextState)
        THEN walk' = [walk EXCEPT !.pc = "buildStatePath",
                                  !.cur = result.NextState,
                                  !.target = result.NextState]
        ELSE walk' = [walk EXCEPT !.pc = "done"]
  /\ UNCHANGED <<states, commandHandlers, m, last>>

\* FindAvailableCommands: one iteration of "for s := state; s != nil", then
\* the sort.
StepFindAvailableCommands ==
  /\ walk.pc = "FindAvailableCommands"
  /\ IF walk.cur = NIL
     THEN walk' = [walk EXCEPT !.pc = "done",
                               !.acc.commands = SortByName(walk.acc.commands)]
     ELSE /\ walk.steps < MaxSteps
          /\ \E order \in RangeOrders :
               walk' = [walk EXCEPT
                          !.acc = IF Name(walk.cur) \in DOMAIN commandHandlers
                                  THEN RangeHandlers(commandHandlers[Name(walk.cur)],
                                                     order[Name(walk.cur)], walk.acc)
                                  ELSE walk.acc,
                          !.cur = Parent(walk.cur),
                          !.steps = @ + 1]
  /\ UNCHANGED <<states, commandHandlers, m, last>>

\* buildStatePath: one iteration of "for s := targetState; s != nil".
StepBuildStatePath ==
  /\ walk.pc = "buildStatePath"
  /\ IF walk.cur = NIL
     THEN walk' = [walk EXCEPT !.pc = "reverse", !.i = 1, !.j = Len(walk.path)]
     ELSE /\ walk.steps < MaxSteps
          /\ walk' = [walk EXCEPT !.path = Append(walk.path, walk.cur),
                                   !.cur = Parent(walk.cur),
                                   !.steps = @ + 1]
  /\ UNCHANGED <<states, commandHandlers, m, last>>

\* buildStatePath: one swap of the reversal, "for i < j".
StepReverse ==
  /\ walk.pc = "reverse"
  /\ IF walk.i < walk.j
     THEN walk' = [walk EXCEPT !.path[walk.i] = walk.path[walk.j],
                               !.path[walk.j] = walk.path[walk.i],
                               !.i = @ + 1, !.j = @ - 1]
     ELSE walk' = [walk EXCEPT !.pc = "done"]
  /\ UNCHANGED <<states, commandHandlers, m, last>>

\* The call returns to its caller.
FinishWalk ==
  /\ walk # Idle
  /\ walk.pc = "done"
  /\ walk' = Idle
  /\ UNCHANGED <<states, commandHandlers, m, last>>

\* A running call takes its next step.
StepWalk ==
  \/ StepRegisterState
  \/ StepFindCommandHandler
  \/ StepHandler
  \/ StepFindAvailableCommands
  \/ StepBuildStatePath
  \/ StepReverse

\* The command names the traversals look up: "a", which gets bound, and "b".
WalkCmdNames == {<<1>>, <<2>>}

TraversalNext ==
  \/ \E s \in NewState, r \in Registrations :
       /\ walk = Idle
       /\ r.def.Name = <<1>>
       /\ RegisterCommand(s, r.def, r.handler)
  \/ \E op \in WalkOps, s \in StatePtrs, c \in WalkCmdNames : BeginWalk(op, s, c)
  \/ StepRegisterState
  \/ StepFindCommandHandler
  \/ StepHandler
  \/ StepFindAvailableCommands
  \/ StepBuildStatePath
  \/ StepReverse
  \/ FinishWalk

\* A call that has started keeps running: the program is sequential.
SpecTraversal == Init /\ [][TraversalNext]_vars /\ WF_vars(StepWalk)

-----------------------------------------------------------------------------
(* The character example: main.go builds the registry, loads the machine   *)
(* (a fresh one at NoSheet, or the one of the saved snapshot), executes    *)
(* one command and saves the snapshot. Go strings are byte sequences.      *)

\* "create", "take-damage", "levelup", and "rest", which nothing binds.
CreateName == <<99, 114, 101, 97, 116, 101>>
TakeDamageName == <<116, 97, 107, 101, 45, 100, 97, 109, 97, 103, 101>>
LevelupName == <<108, 101, 118, 101, 108, 117, 112>>
RestName == <<114, 101, 115, 116>>

\* "Aria", "Bran", "Elf", "Mage"
Aria == <<65, 114, 105, 97>>
Bran == <<66, 114, 97, 110>>
Elf == <<69, 108, 102>>
Mage == <<77, 97, 103, 101>>

\* The argument lists given to create: none, one, two, three and four.
CreateArgs ==
  {<<>>, <<Aria>>, <<Aria, Elf>>, <<Aria, Elf, Mage>>, <<Bran, Elf, Mage>>,
   <<Aria, Elf, Mage, Bran>>}

\* The argument lists given to take-damage: none, "3", "-4", "12", "x", and
\* two arguments.
DamageArgs ==
  {<<>>, <<<<51>>>>, <<<<45, 52>>>>, <<<<49, 50>>>>, <<<<120>>>>, <<<<51>>, <<51>>>>}

\* NewCommand(os.Args[1], os.Args[2:]...)
CharacterCommands ==
  {[name |-> CreateName, args |-> a] : a \in CreateArgs}
    \cup {[name |-> TakeDamageName, args |-> a] : a \in DamageArgs}
    \cup {[name |-> LevelupName, args |-> a] : a \in {<<>>, <<Aria>>}}
    \cup {[name |-> RestName, args |-> <<>>]}

\* The registry main builds: RegisterState of NoSheet and SheetExists, then
\* the three RegisterCommand calls.
CharacterRegistry ==
  LET sts == RegisterStateMap(RegisterStateMap(NewRegistry.states, "pNoSheet"),
                              "pSheetExists")
      c1 == RegisterCommandMap(NewRegistry.commandHandlers, "pNoSheet",
              [Name |-> CreateName, Args |-> "[name] [race] [class]",
               Description |-> "Create a new character."], "create")
      c2 == RegisterCommandMap(c1, "pSheetExists",
              [Name |-> TakeDamageName, Args |-> "[amount]",
               Description |-> "Inflict damage to the character."], "takeDamage")
      c3 == RegisterCommandMap(c2, "pSheetExists",
              [Name |-> LevelupName, Args |-> "",
               Description |-> "Level up the character."], "levelup")
  IN [states |-> sts, commandHandlers |-> c3]

\* The snapshot file main may find: a sheet saved earlier, under NoSheet or
\* under SheetExists.
SavedSheet ==
  [Name |-> Bran, Race |-> Elf, Class |-> Mage, Level |-> 2, HP |-> 7,
   MaxHP |-> 15, BaseStats |-> [STR |-> 10, DEX |-> 10, CON |-> 10],
   Inventory |-> [isNil |-> FALSE, items |-> <<>>]]

CharacterSnapshots ==
  {Snapshot("NoSheet", SavedSheet), Snapshot("SheetExists", SavedSheet)}

CharacterInit ==
  /\ states = CharacterRegistry.states
  /\ commandHandlers = CharacterRegistry.commandHandlers
  /\ m = <<>>
  /\ last = Ret("RegisterCommand")
  /\ walk = Idle

\* m.Execute(ctx, cmd) on the character machine.
CharacterExecute(cmd) ==
  /\ ~Panicked
  /\ m # <<>>
  /\ LET r == MachineExecute(m[1], cmd)
     IN /\ r.m.Data.Level <= MaxLevel
        /\ r.m.Data.HP <= MaxHitPoints
        /\ m' = <<r.m>>
        /\ last' = [Ret("Execute") EXCEPT !.out = r.out, !.err = r.err,
                                          !.handler = r.handler]
  /\ UNCHANGED <<states, commandHandlers, walk>>

CharacterNext ==
  \/ NewMachine("pNoSheet", ZeroCharacterData)
  \/ \E snapshot \in CharacterSnapshots : NewMachineFromSnapshot(snapshot)
  \/ \E cmd \in CharacterCommands : CharacterExecute(cmd)
  \/ GetSnapshot
  \/ SnapshotRoundTrip
  \/ ListCommands

SpecCharacter == CharacterInit /\ [][CharacterNext]_vars

-----------------------------------------------------------------------------
(* C1: for every state S and command name C, findCommandHandler(S, C)      *)
(* finds a handler exactly when some state of S's parent chain (S          *)
(* included) binds C, and then returns the handler of the closest such     *)
(* state: an ancestor's binding is inherited, S's own binding shadows an   *)
(* ancestor's. Execute on a machine at S runs that handler, and when the   *)
(* handler is inherited and returns no next state the machine stays at S.  *)
C1_ClosestBindingWins ==
  /\ \A S \in StatePtrs, C \in CmdNames :
       \A look \in {findCommandHandler(S, C)} :
         IF Binders(S, C) = {}
         THEN ~look.found /\ look.handler = NoHandler
         ELSE look.found /\ look.handler = ClosestBinding(S, C).Handler
  /\ m # <<>> =>
       \A cmd \in Commands :
         Binders(m[1].CurrentState, cmd.name) # {} =>
           \A h \in {ClosestBinding(m[1].CurrentState, cmd.name).Handler},
              r \in {MachineExecute(m[1], cmd)} :
             /\ r.handler = h
             /\ (~Binds(m[1].CurrentState, cmd.name)
                 /\ Call(h, m[1], cmd).NextState = NIL)
                => r.m.CurrentState = m[1].CurrentState

\* Execute ran on a machine at pT, which binds nothing itself: S binds "a" to
\* failing and R binds "a" to enter, and the handler that ran is S's.
C1_Witness ==
  /\ last.op = "Execute"
  /\ last.handler = "failing"
  /\ m # <<>>
  /\ m[1].CurrentState = "pT"
  /\ ~Binds("pT", <<1>>)
  /\ Binds("pS", <<1>>)
  /\ Binds("pR", <<1>>)
  /\ commandHandlers["S"][<<1>>].Handler = "failing"
  /\ commandHandlers["R"][<<1>>].Handler = "enter"

-----------------------------------------------------------------------------
(* C2: Execute with a command name that has no binding on the current      *)
(* state or on any of its ancestors returns a command-not-available error  *)
(* naming the command and the current state, with empty output, runs no    *)
(* handler and leaves the machine's current state, ancestor path and data  *)
(* as they were.                                                           *)
C2_UnknownCommandIsRejected ==
  [][last'.op = "Execute" =>
       \A cmd \in Commands :
         (Execute(cmd) /\ Binders(m[1].CurrentState, cmd.name) = {}) =>
           /\ last'.err.kind = "command not available"
           /\ last'.err = CommandNotAvailableError(cmd.name, Name(m[1].CurrentState))
           /\ last'.out = <<>>
           /\ last'.handler = NoHandler
           /\ m' = m]_vars

\* The same statement for the machines that have a current state.
C2_RejectedAtAState ==
  [][last'.op = "Execute" =>
       \A cmd \in Commands :
         (Execute(cmd) /\ m[1].CurrentState # NIL
          /\ Binders(m[1].CurrentState, cmd.name) = {}) =>
           /\ last'.err = CommandNotAvailableError(cmd.name, Name(m[1].CurrentState))
           /\ last'.out = <<>>
           /\ last'.handler = NoHandler
           /\ m' = m]_vars

-----------------------------------------------------------------------------
(* C3: when the handler Execute resolved returns an error, Execute returns *)
(* that error with the handler's output, makes no transition even when the *)
(* result names a next state (current state and ancestor path stay), and   *)
(* keeps the data as the handler left it.                                  *)
C3_HandlerErrorKeepsState ==
  [][last'.op = "Execute" =>
       \A cmd \in Commands :
         (Execute(cmd) /\ Resolved(cmd).found /\ Returned(cmd).err # NoError) =>
           /\ last'.err = Returned(cmd).err
           /\ last'.out = Returned(cmd).Output
           /\ m'[1].CurrentState = m[1].CurrentState
           /\ m'[1].StateStack = m[1].StateStack
           /\ m'[1].Data = Returned(cmd).Data]_vars

\* failing ran on a machine at pR: it raised the data to 1, wrote output and
\* named pS as the next state before it failed.
C3_Witness ==
  /\ last.op = "Execute"
  /\ last.handler = "failing"
  /\ last.err = HandlerError
  /\ last.out = <<"partial">>
  /\ m[1].CurrentState = "pR"
  /\ m[1].StateStack = <<"pR">>
  /\ m[1].Data = 1

-----------------------------------------------------------------------------
(* C4: when the handler Execute resolved succeeds and returns a next state *)
(* whose name differs from the current state's name, the machine's current *)
(* state becomes that state, its ancestor path becomes the root-to-state   *)
(* path of that state's parent links, and Execute returns the handler's    *)
(* output with a nil error.                                                *)
C4_SuccessTransitions ==
  [][last'.op = "Execute" =>
       \A cmd \in Commands :
         (/\ Execute(cmd)
          /\ Resolved(cmd).found
          /\ Returned(cmd).err = NoError
          /\ Returned(cmd).NextState # NIL
          /\ Name(Returned(cmd).NextState) # Name(m[1].CurrentState)) =>
           /\ m'[1].CurrentState = Returned(cmd).NextState
           /\ IsRootPath(m'[1].StateStack, Returned(cmd).NextState)
           /\ m'[1].Data = Returned(cmd).Data
           /\ last'.out = Returned(cmd).Output
           /\ last'.err = NoError]_vars

\* enter ran at R and moved the machine to pT, whose path has three states.
C4_Witness ==
  /\ last.op = "Execute"
  /\ last.handler = "enter"
  /\ last.err = NoError
  /\ last.out = <<"entered T from ", "R">>
  /\ m[1].CurrentState = "pT"
  /\ m[1].StateStack = <<"pR", "pS", "pT">>

-----------------------------------------------------------------------------
(* C5: when the handler Execute resolved succeeds and returns no next      *)
(* state, or one whose name equals the current state's name (even another  *)
(* State object with another parent), there is no transition: the current  *)
(* state and the ancestor path are as before, the handler's data change    *)
(* and output are kept. The README's increment, run at count 0, gives      *)
(* count 1, "Count is now: 1" and the same state.                          *)
C5_SameNameIsNoTransition ==
  [][last'.op = "Execute" =>
       \A cmd \in Commands :
         (/\ Execute(cmd)
          /\ Resolved(cmd).found
          /\ Returned(cmd).err = NoError
          /\ \/ Returned(cmd).NextState = NIL
             \/ Name(Returned(cmd).NextState) = Name(m[1].CurrentState)) =>
           /\ m'[1].CurrentState = m[1].CurrentState
           /\ m'[1].StateStack = m[1].StateStack
           /\ m'[1].Data = Returned(cmd).Data
           /\ last'.out = Returned(cmd).Output
           /\ last'.err = NoError
           /\ (Resolved(cmd).handler = "increment" /\ m[1].Data = 0) =>
                /\ m'[1].Data = 1
                /\ last'.out = <<"Count is now: ", "1">>]_vars

\* enter ran on a machine at pT2 and returned pT, another State object of the
\* name "T" whose parent is pS: the machine is still at pT2, a root.
C5_Witness ==
  /\ last.op = "Execute"
  /\ last.handler = "enter"
  /\ last.err = NoError
  /\ last.out = <<"entered T from ", "T">>
  /\ m[1].CurrentState = "pT2"
  /\ m[1].StateStack = <<"pT2">>

-----------------------------------------------------------------------------
(* C6, as stated: for any machine M, NewMachineFromSnapshot(registry,      *)
(* M.GetSnapshot()) succeeds and yields a machine with M's current-state   *)
(* name and M's data. Stated here for the machines whose current state is  *)
(* not nil only, so that what refutes it is a machine at a state.          *)
C6_EveryMachineRoundTrips ==
  [][(SnapshotRoundTrip /\ m[1].CurrentState # NIL) =>
       /\ last'.err = NoError
       /\ m' # <<>>
       /\ Name(m'[1].CurrentState) = Name(m[1].CurrentState)
       /\ m'[1].Data = m[1].Data]_vars

(* C6, amended: for any machine M whose current state is a state whose     *)
(* name is a key of the registry's state set, the round trip succeeds and  *)
(* yields a machine with M's current-state name and M's data, its current  *)
(* state being the registry's state of that name; when the name is not a   *)
(* key the restore fails with a state-not-found error.                     *)
C6_RegisteredMachineRoundTrips ==
  [][(SnapshotRoundTrip /\ m[1].CurrentState # NIL) =>
       IF Name(m[1].CurrentState) \in DOMAIN states
       THEN /\ last'.err = NoError
            /\ m' # <<>>
            /\ m'[1].CurrentState = states[Name(m[1].CurrentState)]
            /\ Name(m'[1].CurrentState) = Name(m[1].CurrentState)
            /\ m'[1].Data = m[1].Data
       ELSE /\ last'.err = StateNotFoundError(Name(m[1].CurrentState))
            /\ m' = <<>>]_vars

\* A machine at T with data 1 was restored from its own snapshot.
C6_Witness ==
  /\ last.op = "SnapshotRoundTrip"
  /\ last.err = NoError
  /\ last.snap = Snapshot("T", 1)
  /\ m # <<>>
  /\ m[1].CurrentState = "pT"
  /\ m[1].Data = 1

-----------------------------------------------------------------------------
(* C7: NewMachineFromSnapshot fails with a state-not-found error and       *)
(* returns no machine whenever the snapshot's state name is not a key of   *)
(* the registry's state set; whenever it is a key the call succeeds, the   *)
(* data is the snapshot's and the current state is the registry's state of *)
(* that name.                                                              *)
C7_RestoreNeedsRegisteredName ==
  [][last'.op = "NewMachineFromSnapshot" =>
       \A snapshot \in Snapshots :
         NewMachineFromSnapshot(snapshot) =>
           IF snapshot.CurrentStateName \in DOMAIN states
           THEN /\ last'.err = NoError
                /\ m' # <<>>
                /\ m'[1].Data = snapshot.Data
                /\ m'[1].CurrentState = states[snapshot.CurrentStateName]
           ELSE /\ last'.err = StateNotFoundError(snapshot.CurrentStateName)
                /\ m' = <<>>]_vars

\* A restore failed for the name "T" in a registry that holds R and S.
C7_Witness ==
  /\ last.op = "NewMachineFromSnapshot"
  /\ last.err = StateNotFoundError("T")
  /\ m = <<>>
  /\ DOMAIN states = {"R", "S"}

-----------------------------------------------------------------------------
(* C8, as stated: after RegisterState(S), S and every ancestor of S along  *)
(* S's own parent links is present in the registry's state set (read in    *)
(* the weakest way: a state is present when its name is a key).            *)
C8_AncestorsAlwaysRegistered ==
  [][\A S \in NewState :
       RegisterState(S) => \A A \in Chain(S) : Name(A) \in DOMAIN states']_vars

(* C8, amended: the registry's state set only grows (no entry is removed   *)
(* or replaced), and after RegisterState(S), when no name on S's parent    *)
(* chain was held in the registry by another State object, S and every     *)
(* ancestor of S is the registry's state of its name.                      *)
C8_AncestorsRegisteredIfNamesUnique ==
  [][/\ \A n \in DOMAIN states : n \in DOMAIN states' /\ states'[n] = states[n]
     /\ last'.op = "RegisterState" =>
          \A S \in NewState :
            (/\ RegisterState(S)
             /\ \A A \in Chain(S) : Name(A) \in DOMAIN states => states[Name(A)] = A)
            => \A A \in Chain(S) : Name(A) \in DOMAIN states' /\ states'[Name(A)] = A]_vars

\* RegisterState stored pT with both of its ancestors.
C8_Witness ==
  /\ last.op = "RegisterState"
  /\ DOMAIN states = {"R", "S", "T"}
  /\ states["T"] = "pT"
  /\ states["S"] = "pS"
  /\ states["R"] = "pR"

-----------------------------------------------------------------------------
(* C9: for every state S, whatever the bindings registered and whatever    *)
(* the order in which the maps are ranged over, FindAvailableCommands(S)   *)
(* holds no two definitions of one name and is in ascending lexicographic  *)
(* order of name.                                                          *)
C9_ListingSortedNoDuplicates ==
  \A order \in RangeOrders, S \in StatePtrs :
    \A cmds \in {FindAvailableCommands(S, order)} :
      \A i, j \in 1..Len(cmds) :
        i < j => /\ cmds[i].Name # cmds[j].Name
                 /\ LexBefore(cmds[i].Name, cmds[j].Name)

\* The commands of the current state were listed: two names, which the walk
\* from the state upward collects in descending order.
C9_Witness ==
  /\ last.op = "FindAvailableCommands"
  /\ Len(last.cmds) = 2
  /\ m # <<>>
  /\ \E order \in RangeOrders :
       LET got == CollectCommands(m[1].CurrentState, order,
                                  [seen |-> {}, commands |-> <<>>]).commands
       IN Len(got) = 2 /\ LexBefore(got[2].Name, got[1].Name)

-----------------------------------------------------------------------------
(* C10: for every state S and command name C, a definition named C is in   *)
(* FindAvailableCommands(S) exactly when findCommandHandler(S, C) finds a  *)
(* handler, and the definition listed and the handler found are those of   *)
(* one binding, the closest to S.                                          *)
C10_ListingAgreesWithLookup ==
  \A order \in RangeOrders, S \in StatePtrs :
    \A cmds \in {FindAvailableCommands(S, order)} :
      \A C \in CmdNames : \A look \in {findCommandHandler(S, C)} :
        LET listed == {i \in 1..Len(cmds) : cmds[i].Name = C}
        IN /\ (listed # {}) <=> look.found
           /\ look.found =>
                /\ Binders(S, C) # {}
                /\ \A closest \in {ClosestBinding(S, C)} :
                     /\ \A i \in listed : cmds[i] = closest.Def
                     /\ look.handler = closest.Handler

\* The commands of pT were listed: S and R both bind "a", with different
\* definitions, and the one listed is S's.
C10_Witness ==
  /\ last.op = "FindAvailableCommands"
  /\ m # <<>>
  /\ m[1].CurrentState = "pT"
  /\ Binds("pS", <<1>>)
  /\ Binds("pR", <<1>>)
  /\ commandHandlers["S"][<<1>>].Def # commandHandlers["R"][<<1>>].Def
  /\ last.cmds = <<commandHandlers["S"][<<1>>].Def>>

-----------------------------------------------------------------------------
(* C11, as stated: GetSnapshot is callable on any machine, also one built  *)
(* by NewMachine with a nil initial state: it never fails and returns the  *)
(* pair (current state's name, data).                                      *)
C11_GetSnapshotNeverFails ==
  [][GetSnapshot =>
       /\ last'.err = NoError
       /\ last'.snap = Snapshot(Name(m[1].CurrentState), m[1].Data)]_vars

\* The same statement for the machines that have a current state.
C11_SnapshotAtAState ==
  [][(GetSnapshot /\ m[1].CurrentState # NIL) =>
       /\ last'.err = NoError
       /\ last'.snap = Snapshot(Name(m[1].CurrentState), m[1].Data)
       /\ m' = m]_vars

-----------------------------------------------------------------------------
\* s is a state of the registry's state set: the state stored under its name.
InRegistry(s) ==
  /\ s # NIL
  /\ Name(s) \in DOMAIN states
  /\ states[Name(s)] = s

(* C12, as stated: the machine's current state is a state present in the   *)
(* registry's state set (read in the weakest way, its name is a key, and   *)
(* for the machines that have a current state).                            *)
C12_CurrentStateIsRegistered ==
  (m # <<>> /\ m[1].CurrentState # NIL) =>
    Name(m[1].CurrentState) \in DOMAIN states

(* C12, amended: NewMachine and TransitionTo set the current state to the   *)
(* state they are given, registered or not; a successful                   *)
(* NewMachineFromSnapshot sets it to a state of the registry; during       *)
(* Execute the current state changes only to the next state returned by a  *)
(* handler that succeeded. So the current state is a state of the registry *)
(* after a step whenever the state given to NewMachine or TransitionTo is  *)
(* one, and whenever Execute starts at one and the handler's next state,   *)
(* if any, is one.                                                         *)
C12_CurrentStateFollowsInputs ==
  /\ [](/\ \A s \in StatePtrs, d \in 0..MaxData :
             MachineNew(s, d).CurrentState = s
         /\ m # <<>> =>
             \A target \in StatePtrs :
               MachineTransitionTo(m[1], target).CurrentState = target)
  /\ [][
     /\ last'.op = "NewMachine" =>
          m'[1] = MachineNew(m'[1].CurrentState, m'[1].Data)
     /\ last'.op = "TransitionTo" =>
          m'[1] = MachineTransitionTo(m[1], m'[1].CurrentState)
     /\ (last'.op = "NewMachineFromSnapshot" /\ last'.err = NoError) =>
          InRegistry(m'[1].CurrentState)
     /\ last'.op = "Execute" =>
          \A cmd \in Commands :
            Execute(cmd) =>
              /\ \/ m'[1].CurrentState = m[1].CurrentState
                 \/ /\ Resolved(cmd).found
                    /\ Returned(cmd).err = NoError
                    /\ m'[1].CurrentState = Returned(cmd).NextState
              /\ (/\ InRegistry(m[1].CurrentState)
                  /\ Resolved(cmd).found =>
                       \/ Returned(cmd).NextState = NIL
                       \/ InRegistry(Returned(cmd).NextState))
                 => InRegistry(m'[1].CurrentState)]_vars

\* enter moved a machine from the registered R to the registered pT.
C12_Witness ==
  /\ last.op = "Execute"
  /\ last.out = <<"entered T from ", "R">>
  /\ m[1].CurrentState = "pT"
  /\ InRegistry("pT")
  /\ InRegistry("pR")

-----------------------------------------------------------------------------
(* C13, as stated: no Registry operation raises an error or crashes, for   *)
(* any argument, a nil state included.                                     *)
C13_RegistryNeverFails ==
  [][last'.op \in {"RegisterState", "RegisterCommand", "FindAvailableCommands"}
       => last'.err = NoError]_vars

\* The same statement without RegisterCommand: RegisterState and the three
\* lookups accept every argument, the nil state included.
C13_LookupsNeverFail ==
  /\ \A S \in StatePtrs : RegisterStateMap(states, S) \in [DOMAIN RegisterStateMap(states, S) -> NewState]
  /\ \A n \in StateNames \cup {"Ghost"} :
       GetStateByName(n).ok = (n \in DOMAIN states)
  /\ \A S \in StatePtrs, C \in CmdNames :
       findCommandHandler(S, C).found = (Binders(S, C) # {})
  /\ \A order \in RangeOrders :
       FindAvailableCommands(NIL, order) = <<>>

-----------------------------------------------------------------------------
\* The registry holds a binding for the pair (state name sn, command name c).
Bound(ch, sn, c) == sn \in DOMAIN ch /\ c \in DOMAIN ch[sn]

(* C14: last write wins. After RegisterCommand(state, def, handler) the     *)
(* binding of the pair (state's name, def's name) is that definition and   *)
(* that handler, whatever the pair was bound to before; the call raises no *)
(* error; every other pair has the binding it had, and no other pair is    *)
(* added or removed. A pair has one binding: bindings are a map keyed by   *)
(* state name, then command name.                                          *)
C14_LastWriteWins ==
  /\ [](\A s \in NewState, r \in Registrations :
          LET after == RegisterCommandMap(commandHandlers, s, r.def, r.handler)
          IN /\ Bound(after, Name(s), r.def.Name)
             /\ after[Name(s)][r.def.Name] = [Def |-> r.def, Handler |-> r.handler]
             /\ DOMAIN after \subseteq StateNames
             /\ \A sn \in StateNames, c \in CmdNames :
                  <<sn, c>> # <<Name(s), r.def.Name>> =>
                    /\ Bound(after, sn, c) = Bound(commandHandlers, sn, c)
                    /\ Bound(commandHandlers, sn, c) =>
                         after[sn][c] = commandHandlers[sn][c])
  /\ [][(last'.op = "RegisterCommand" /\ last'.err # NoError) =>
          \A s \in NewState, r \in Registrations :
            ~RegisterCommand(s, r.def, r.handler)]_vars

\* RegisterCommand was the last call of a full registry: R binds "a" to
\* failing, S still binds "a" to enter.
C14_Witness ==
  /\ last.op = "RegisterCommand"
  /\ last.err = NoError
  /\ NumBindings = MaxBindings
  /\ Bound(commandHandlers, "R", <<1>>)
  /\ commandHandlers["R"][<<1>>].Handler = "failing"
  /\ Bound(commandHandlers, "S", <<1>>)
  /\ commandHandlers["S"][<<1>>].Handler = "enter"

-----------------------------------------------------------------------------
(* C15: RegisterState is idempotent. Called with a state whose name is     *)
(* already in the registry, or with the nil state, it leaves the state set *)
(* and the command bindings unchanged; it never touches the bindings; and  *)
(* a second RegisterState of the same state changes nothing.               *)
C15_RegisterStateIdempotent ==
  [][last'.op = "RegisterState" =>
       \A S \in StatePtrs :
         RegisterState(S) =>
           /\ (S = NIL \/ Name(S) \in DOMAIN states) => states' = states
           /\ commandHandlers' = commandHandlers
           /\ S # NIL => Name(S) \in DOMAIN states'
           /\ RegisterStateMap(states', S) = states']_vars

\* RegisterState was called and the state set is still empty: the call was
\* RegisterState(nil).
C15_Witness ==
  /\ last.op = "RegisterState"
  /\ states = EmptyMap

-----------------------------------------------------------------------------
(* C16: after NewMachine, NewMachineFromSnapshot, Execute and TransitionTo *)
(* the machine's StateStack is the root-to-current path of its current     *)
(* state (its last element is the current state, its first element has no  *)
(* parent, every other element's parent is the element before it; for a    *)
(* nil current state the path is empty), whatever the registry holds.      *)
(* NewMachine always succeeds.                                             *)
C16_StackIsRootPath ==
  [][/\ m' # <<>> =>
          IF m'[1].CurrentState = NIL
          THEN m'[1].StateStack = <<>>
          ELSE IsRootPath(m'[1].StateStack, m'[1].CurrentState)
     /\ last'.op = "NewMachine" => (last'.err = NoError /\ m' # <<>>)]_vars

\* NewMachine built a machine at pT over a registry with no states: its path
\* is R, S, T.
C16_Witness ==
  /\ last.op = "NewMachine"
  /\ states = EmptyMap
  /\ m[1].CurrentState = "pT"
  /\ m[1].StateStack = <<"pR", "pS", "pT">>

-----------------------------------------------------------------------------
(* C19: the registry is read-only at run time. Execute (with handlers that *)
(* do not register anything themselves), TransitionTo, GetSnapshot,        *)
(* NewMachine, NewMachineFromSnapshot and FindAvailableCommands leave the  *)
(* state set and the command bindings as they were, and                    *)
(* FindAvailableCommands leaves the machine as it was. GetStateByName and  *)
(* findCommandHandler only read the two maps.                              *)
C19_RegistryReadOnly ==
  [][/\ last'.op \in {"Execute", "TransitionTo", "GetSnapshot", "NewMachine",
                      "NewMachineFromSnapshot", "SnapshotRoundTrip",
                      "FindAvailableCommands"} =>
          /\ states' = states
          /\ commandHandlers' = commandHandlers
     /\ last'.op \in {"FindAvailableCommands", "GetSnapshot"} => m' = m]_vars

\* increment ran on a machine at R over a registry that holds R and a
\* binding at R.
C19_Witness ==
  /\ last.op = "Execute"
  /\ last.handler = "increment"
  /\ DOMAIN states = {"R"}
  /\ DOMAIN commandHandlers = {"R"}

-----------------------------------------------------------------------------
\* The states handler can return as the next state.
CanReturn(handler) ==
  {Call(handler, [CurrentState |-> s, StateStack |-> <<s>>, Data |-> d], cmd).NextState :
     s \in NewState, d \in 0..MaxData, cmd \in Commands} \ {NIL}

\* Every state a bound handler can return is a state of the registry.
HandlersClosed ==
  \A h \in {commandHandlers[p[1]][p[2]].Handler :
              p \in {q \in StateNames \X CmdNames : Bound(commandHandlers, q[1], q[2])}} :
    \A s \in CanReturn(h) : InRegistry(s)

\* The State objects in use (the machine's, the registry's, the ones bound
\* handlers return, and their ancestors) have pairwise different names.
NamesUnique ==
  LET bound == {q \in StateNames \X CmdNames : Bound(commandHandlers, q[1], q[2])}
      used == {m[1].CurrentState} \cup {states[n] : n \in DOMAIN states}
                \cup UNION {CanReturn(commandHandlers[q[1]][q[2]].Handler) : q \in bound}
      all == UNION {Chain(s) : s \in used}
  IN \A a, b \in all : Name(a) = Name(b) => a = b

\* The runs of at most MaxRun commands.
CommandRuns == UNION {[1..n -> Commands] : n \in 1..MaxRun}

\* The two runs returned the same outputs and errors and ended with the same
\* current-state name and data.
SameBehaviour(a, b) ==
  /\ a.results = b.results
  /\ a.m # <<>>
  /\ b.m # <<>>
  /\ Name(a.m[1].CurrentState) = Name(b.m[1].CurrentState)
  /\ a.m[1].Data = b.m[1].Data

-----------------------------------------------------------------------------
\* No state is its own ancestor, and every parent chain ends.
Acyclic ==
  \A s \in NewState :
    /\ \A k \in 1..Cardinality(NewState) : Up(s, k) # s
    /\ Up(s, Cardinality(NewState)) = NIL

\* The loops of the running call have visited no more states than the chain
\* of the state it started at has (for Execute: plus the chain of the state
\* it transitions to).
StepsBounded ==
  walk # Idle =>
    walk.steps <= Cardinality(Chain(walk.start)) + Cardinality(Chain(walk.target))

(* C17: every hierarchy traversal terminates. The parent chains are finite *)
(* and acyclic; RegisterState, findCommandHandler, FindAvailableCommands   *)
(* and buildStatePath visit at most as many states as the chain has, and   *)
(* every call that started returns; Execute returns once its handler has.  *)
C17_TraversalsTerminate ==
  /\ [](Acyclic /\ StepsBounded)
  /\ (walk # Idle) ~> (walk # Idle /\ walk.pc = "done")

\* Execute at R found "a" at R itself, the handler asked for pT, and the path
\* of pT was built and reversed: four states visited, and the call returned.
C17_Witness ==
  /\ walk # Idle
  /\ walk.op = "Execute"
  /\ walk.pc = "done"
  /\ walk.start = "pR"
  /\ walk.target = "pT"
  /\ walk.steps = 4
  /\ walk.path = <<"pR", "pS", "pT">>

-----------------------------------------------------------------------------
(* C20: character example. On a machine at NoSheet, create with exactly    *)
(* three arguments succeeds, moves the machine to SheetExists and sets the *)
(* data to that name, race and class with level 1, HP 10, MaxHP 10, base   *)
(* stats 10/10/10 and an empty inventory; create with any other number of  *)
(* arguments returns an error and leaves the state NoSheet and the data    *)
(* unchanged.                                                              *)
C20_CreateAtNoSheet ==
  [][last'.op = "Execute" =>
       \A cmd \in CharacterCommands :
         (/\ CharacterExecute(cmd)
          /\ cmd.name = CreateName
          /\ m[1].CurrentState = "pNoSheet") =>
           IF Len(cmd.args) = 3
           THEN /\ last'.err = NoError
                /\ m'[1].CurrentState = "pSheetExists"
                /\ Name(m'[1].CurrentState) = "SheetExists"
                /\ m'[1].StateStack = <<"pRoot", "pSheetExists">>
                /\ m'[1].Data.Name = cmd.args[1]
                /\ m'[1].Data.Race = cmd.args[2]
                /\ m'[1].Data.Class = cmd.args[3]
                /\ m'[1].Data.Level = 1
                /\ m'[1].Data.HP = 10
                /\ m'[1].Data.MaxHP = 10
                /\ m'[1].Data.BaseStats = [STR |-> 10, DEX |-> 10, CON |-> 10]
                /\ m'[1].Data.Inventory.items = <<>>
           ELSE /\ last'.err # NoError
                /\ last'.out = <<>>
                /\ m'[1].CurrentState = "pNoSheet"
                /\ m'[1].StateStack = m[1].StateStack
                /\ m'[1].Data = m[1].Data]_vars

\* create "Aria" "Elf" "Mage" ran and the machine is at SheetExists with the
\* new sheet.
C20_Witness ==
  /\ last.op = "Execute"
  /\ last.handler = "create"
  /\ last.err = NoError
  /\ m[1].CurrentState = "pSheetExists"
  /\ m[1].Data.Name = Aria
  /\ m[1].Data.Level = 1
  /\ m[1].Data.HP = 10

\* create was refused at NoSheet on a machine that holds a saved sheet.
C20_RefusedWitness ==
  /\ last.op = "Execute"
  /\ last.handler = "create"
  /\ last.err = Errorf("usage: create [name] [race] [class]")
  /\ m[1].CurrentState = "pNoSheet"
  /\ m[1].Data = SavedSheet

-----------------------------------------------------------------------------
(* The character example from a fresh machine: no snapshot file exists at  *)
(* the first run, so main starts at NoSheet with the zero CharacterData;   *)
(* every later run restores the snapshot the run before it saved.          *)

FreshCharacterNext ==
  \/ NewMachine("pNoSheet", ZeroCharacterData)
  \/ \E cmd \in CharacterCommands : CharacterExecute(cmd)
  \/ GetSnapshot
  \/ SnapshotRoundTrip
  \/ ListCommands

SpecFreshCharacter == CharacterInit /\ [][FreshCharacterNext]_vars

\* The sheet's HP is within 0..MaxHP.
HitPointsInRange(data) == 0 <= data.HP /\ data.HP <= data.MaxHP

C21_HitPointsNeverNegative ==
  m # <<>> => /\ m[1].Data.HP >= 0
              /\ m[1].CurrentState = "pSheetExists" => m[1].Data.MaxHP >= 10

\* The only step that takes HP out of 0..MaxHP is a take-damage that parsed
\* a negative amount: every other Execute keeps a sheet that is in range in range.
C21_OnlyNegativeDamageLeavesRange ==
  [][last'.op = "Execute" =>
       \A cmd \in CharacterCommands :
         (/\ CharacterExecute(cmd)
          /\ HitPointsInRange(m[1].Data)
          /\ ~HitPointsInRange(m'[1].Data)) =>
           /\ last'.handler = "takeDamage"
           /\ Len(cmd.args) = 1
           /\ Atoi(cmd.args[1]).ok
           /\ Atoi(cmd.args[1]).n < 0]_vars
====
